---------------------------- MODULE Spec2Model ----------------------------
(***************************************************************************)
(* A model of BossOperator (src/boss_operator.py): the paginated prefix    *)
(* listing, and the upload / download / delete operations over an          *)
(* S3-compatible bucket and the local file system.                         *)
(*                                                                         *)
(* Strings are sequences of one-character strings, so that startswith,     *)
(* rstrip, replace, split, re.match and the store's lexicographic key      *)
(* order are computed character by character.                              *)
(***************************************************************************)
EXTENDS Integers, Sequences, FiniteSets, TLC

(***************************************************************************)
(* Bounds of the model.                                                    *)
(***************************************************************************)
\* keys per listing page: the code asks for 100 (MaxKeys=100), scaled down
MaxKeys == 2
\* store calls of one operation that may fail
MaxFaults == 1
\* longest list handed to upload_files / delete_files
MaxListLen == 2

(***************************************************************************)
(* Python's str operations.                                                *)
(***************************************************************************)
\* ord(): the code points of the characters the model uses
Ord(c) ==
  CASE c = "*" -> 42
    [] c = "," -> 44
    [] c = "." -> 46
    [] c = "/" -> 47
    [] c = "\\" -> 92
    [] c = "a" -> 97
    [] c = "b" -> 98
    [] c = "d" -> 100
    [] c = "g" -> 103
    [] c = "l" -> 108
    [] c = "o" -> 111
    [] c = "r" -> 114
    [] c = "s" -> 115
    [] c = "t" -> 116
    [] c = "x" -> 120
    [] c = "y" -> 121
    [] c = "z" -> 122

\* s[i:] (1-based: the suffix that starts at position i)
From(s, i) == SubSeq(s, i, Len(s))

\* s.startswith(p)
StartsWith(s, p) == Len(p) <= Len(s) /\ SubSeq(s, 1, Len(p)) = p

\* s.endswith(p)
EndsWith(s, p) == Len(p) <= Len(s) /\ SubSeq(s, Len(s) - Len(p) + 1, Len(s)) = p

\* s.rstrip(c)
RECURSIVE RStrip(_, _)
RStrip(s, c) ==
  IF Len(s) > 0 /\ s[Len(s)] = c THEN RStrip(SubSeq(s, 1, Len(s) - 1), c) ELSE s

\* s < t in the order of str (and of the store's keys): code point by code point
RECURSIVE StrLess(_, _)
StrLess(s, t) ==
  IF Len(t) = 0 THEN FALSE
  ELSE IF Len(s) = 0 THEN TRUE
  ELSE IF s[1] = t[1] THEN StrLess(Tail(s), Tail(t))
  ELSE Ord(s[1]) < Ord(t[1])

\* s.replace(old, new): every non-overlapping occurrence, left to right
RECURSIVE Replace(_, _, _)
Replace(s, old, new) ==
  IF Len(old) = 0
    THEN IF Len(s) = 0 THEN new ELSE new \o <<s[1]>> \o Replace(Tail(s), old, new)
  ELSE IF Len(s) = 0 THEN s
  ELSE IF StartsWith(s, old) THEN new \o Replace(From(s, Len(old) + 1), old, new)
  ELSE <<s[1]>> \o Replace(Tail(s), old, new)

\* s.split(c): the list of the pieces between the separators
RECURSIVE Split(_, _)
Split(s, c) ==
  IF \A i \in 1..Len(s) : s[i] # c THEN <<s>>
  ELSE LET i == CHOOSE j \in 1..Len(s) : s[j] = c /\ \A k \in 1..(j - 1) : s[k] # c
       IN <<SubSeq(s, 1, i - 1)>> \o Split(From(s, i + 1), c)

\* c.join(parts)
RECURSIVE Join(_, _)
Join(parts, c) ==
  IF Len(parts) = 0 THEN <<>>
  ELSE IF Len(parts) = 1 THEN parts[1]
  ELSE parts[1] \o <<c>> \o Join(Tail(parts), c)

\* "/".join(path.split("/")[:-1]): the directory a local file lies in
DirName(path) ==
  LET parts == Split(path, "/") IN Join(SubSeq(parts, 1, Len(parts) - 1), "/")

\* sorted(S): the keys of a finite set in the store's order
RECURSIVE SortedKeys(_)
SortedKeys(S) ==
  IF S = {} THEN <<>>
  ELSE LET m == CHOOSE x \in S : \A y \in S \ {x} : StrLess(x, y)
       IN <<m>> \o SortedKeys(S \ {m})


(***************************************************************************)
(* re.match(pattern, file_name) for the patterns the model draws: literal  *)
(* characters, ".", an escaped punctuation character and a postfix "*".    *)
(***************************************************************************)
\* sre's parser: the pattern as a list of items, or the re.error it raises
RECURSIVE re_compile(_)
re_compile(p) ==
  LET cons(item, tl) == [ok |-> tl.ok, items |-> <<item>> \o tl.items]
      bad == [ok |-> FALSE, items |-> <<>>]
      item(esc, ch, rest) ==
        IF Len(rest) > 0 /\ rest[1] = "*"
          THEN IF Len(rest) > 1 /\ rest[2] = "*" THEN bad            \* multiple repeat
               ELSE cons([any |-> (~esc /\ ch = "."), ch |-> ch, star |-> TRUE],
                         re_compile(Tail(rest)))
          ELSE cons([any |-> (~esc /\ ch = "."), ch |-> ch, star |-> FALSE],
                    re_compile(rest))
  IN IF Len(p) = 0 THEN [ok |-> TRUE, items |-> <<>>]
     ELSE IF p[1] = "*" THEN bad                                     \* nothing to repeat
     ELSE IF p[1] = "\\" THEN
            IF Len(p) = 1 THEN bad                                   \* bad escape
            ELSE item(TRUE, p[2], From(p, 3))
     ELSE item(FALSE, p[1], From(p, 2))

\* whether items[i..] match the text at position j (the end is not anchored)
RECURSIVE re_match_here(_, _, _, _)
re_match_here(items, i, text, j) ==
  IF i > Len(items) THEN TRUE
  ELSE LET it == items[i]
           hit(k) == k <= Len(text) /\ (it.any \/ text[k] = it.ch)
       IN IF it.star
            THEN \E n \in 0..(Len(text) - j + 1) :
                   /\ \A k \in j..(j + n - 1) : hit(k)
                   /\ re_match_here(items, i + 1, text, j + n)
            ELSE hit(j) /\ re_match_here(items, i + 1, text, j + 1)

\* a search anywhere in the name: re.search in place of re.match
match_file_name_search(file_name, pattern) ==
  LET found(c) ==
        IF ~c.ok THEN "raise"
        ELSE IF \E j \in 1..(Len(file_name) + 1) : re_match_here(c.items, 1, file_name, j)
          THEN "True" ELSE "False"
  IN found(re_compile(pattern))

\* BossOperator.__match_file_name: bool(re.match(pattern, file_name))
match_file_name(file_name, pattern) ==
  LET found(c) ==
        IF ~c.ok THEN "raise"
        ELSE IF re_match_here(c.items, 1, file_name, 1) THEN "True" ELSE "False"
  IN found(re_compile(pattern))

(***************************************************************************)
(* The world an operation runs in: w.bucket maps each key of the bucket to *)
(* its content, w.files each local file to its content, w.dirs is the set  *)
(* of local directories, and w.log lists what the operation did: its store *)
(* calls with their outcomes, and the entry and exit of every              *)
(* upload_single_file / download_single_file / delete_single_file; w.n is  *)
(* the number of store calls in w.log.                                     *)
(*                                                                         *)
(* An oracle o is a set of <<n, mode>>: the n-th store call of the         *)
(* operation fails in that mode.                                           *)
(* A store call ends "ok", or with "404", "ClientError" (any other code),   *)
(* "Exception" (no ClientError) or "OSError" (the local file system).      *)
(*   "client"    a ClientError whose code is not 404 (403, 500, ...)       *)
(*   "transport" an exception that is no ClientError (connection, timeout) *)
(*   "stale"     a delete that is acknowledged and not applied             *)
(***************************************************************************)
StoreCalls == {"load", "delete", "put", "get", "list"}

FaultModes == {"client", "transport", "stale"}

Event(call, key, out) == [call |-> call, key |-> key, out |-> out]

\* the mode of the next store call: w.n store calls were made so far
Mode(w, o) ==
  LET n == w.n + 1
  IN IF \E f \in o : f[1] = n THEN (CHOOSE f \in o : f[1] = n)[2] ELSE "ok"

Logged(w, call, key, out) ==
  [w EXCEPT !.log = Append(@, Event(call, key, out)),
            !.n = IF call \in StoreCalls THEN @ + 1 ELSE @]

\* the exception a store call raises in mode m ("" for none)
Raised(m) == IF m = "client" THEN "ClientError" ELSE IF m = "transport" THEN "Exception" ELSE ""

\* resource.Object(bucket, key).load(): HEAD, ClientError 404 when the key is absent
s3_load(w, key, o) ==
  LET done(exc) == [w |-> Logged(w, "load", key, IF exc = "" THEN "ok" ELSE exc),
                    exc |-> exc]
      call(x) == done(IF x # "" THEN x ELSE IF key \in DOMAIN w.bucket THEN "" ELSE "404")
  IN call(Raised(Mode(w, o)))

\* resource.Object(bucket, key).delete(): no error for an absent key
s3_delete(w, key, o) ==
  LET call(m) ==
        IF m = "ok"
          THEN [w |-> Logged([w EXCEPT !.bucket = [k \in DOMAIN w.bucket \ {key} |->
                                                     w.bucket[k]]],
                             "delete", key, "ok"),
                exc |-> ""]
        ELSE IF m = "stale" THEN [w |-> Logged(w, "delete", key, "stale"), exc |-> ""]
        ELSE [w |-> Logged(w, "delete", key, Raised(m)), exc |-> Raised(m)]
  IN call(Mode(w, o))

\* resource.Object(bucket, key).upload_file(file): PUT of the file's content; a
\* directory fails before any request
s3_upload_file(w, key, file, o) ==
  LET call(x) ==
        IF x # "" THEN [w |-> Logged(w, "put", key, x), exc |-> x]
        ELSE [w |-> Logged([w EXCEPT !.bucket =
                               [k \in DOMAIN w.bucket \cup {key} |->
                                  IF k = key THEN w.files[file] ELSE w.bucket[k]]],
                           "put", key, "ok"),
              exc |-> ""]
  IN IF file \notin DOMAIN w.files THEN [w |-> w, exc |-> "OSError"]
     ELSE call(Raised(Mode(w, o)))

\* resource.Object(bucket, key).download_file(path): HEAD and GET; the file is
\* written only when complete, and not into a directory that does not exist
s3_download_file(w, key, path, o) ==
  LET done(exc) ==
        IF exc # "" THEN [w |-> Logged(w, "get", key, exc), exc |-> exc]
        ELSE [w |-> Logged([w EXCEPT !.files =
                               [p \in DOMAIN w.files \cup {path} |->
                                  IF p = path THEN w.bucket[key] ELSE w.files[p]]],
                           "get", key, "ok"),
              exc |-> ""]
      call(x, dir) ==
        done(IF x # "" THEN x
             ELSE IF key \notin DOMAIN w.bucket THEN "404"
             ELSE IF dir # <<>> /\ dir \notin w.dirs THEN "OSError"
             ELSE IF path \in w.dirs THEN "OSError"
             ELSE "")
  IN call(Raised(Mode(w, o)), DirName(path))

\* client.list_objects_v2(ContinuationToken, MaxKeys, StartAfter): one page of at
\* most n keys in key order; a token, when given, replaces StartAfter
s3_list_objects_v2(w, token, n, start_after, o) ==
  LET paged(exc, after, page) ==
        [w |-> Logged(w, "list", token, IF exc = "" THEN "ok" ELSE exc),
         exc |-> exc,
         Contents |-> page,            \* the response has no "Contents" when empty
         IsTruncated |-> Len(after) > Len(page),
         NextContinuationToken |->
           IF Len(after) > Len(page) THEN page[Len(page)] ELSE <<>>]
      cut(exc, after) ==
        paged(exc, after, SubSeq(after, 1, IF n < Len(after) THEN n ELSE Len(after)))
      start(exc, from) ==
        cut(exc, SortedKeys({k \in DOMAIN w.bucket : StrLess(from, k)}))
  IN start(Raised(Mode(w, o)), IF Len(token) > 0 THEN token ELSE start_after)

(***************************************************************************)
(* BossOperator's methods. Each takes the world and returns the world it   *)
(* leaves with ret: "True", "False", "None", or "raise" when an exception  *)
(* leaves the method. A method's steps are chained the way the code runs   *)
(* them: each step is handed the result of the one before it.              *)
(***************************************************************************)
Ret(w, ret) == [w |-> w, ret |-> ret]

\* an except clause that lets the exception through
NoCatch(res) == res

\* except Exception as e: print(...); return False
Catch(res) == IF res.ret = "raise" THEN [w |-> res.w, ret |-> "False"] ELSE res

\* BossOperator.__boss_file_exist: True, False on a 404, None on any other
\* ClientError (the handler falls through); other exceptions leave it
boss_file_exist(w, file_path, o) ==
  LET answer(h) ==
        IF h.exc = "" THEN Ret(h.w, "True")
        ELSE IF h.exc = "404" THEN Ret(h.w, "False")
        ELSE IF h.exc = "ClientError" THEN Ret(h.w, "None")
        ELSE Ret(h.w, "raise")
  IN answer(s3_load(w, file_path, o))

\* BossOperator.__local_file_exist: os.path.exists, true of a directory too
local_file_exist(w, file_path) == file_path \in DOMAIN w.files \/ file_path \in w.dirs

\* every directory on the way to path, path included
Ancestors(path) ==
  LET all(parts) == {Join(SubSeq(parts, 1, i), "/") : i \in 1..Len(parts)} \ {<<>>}
  IN all(Split(path, "/"))

\* BossOperator.__mkdir: os.makedirs unless the path exists; makedirs raises on
\* an empty path and when a file is in the way
mkdir(w, path) ==
  LET make(up) ==
        IF path = <<>> \/ \E a \in up : a \in DOMAIN w.files THEN Ret(w, "raise")
        ELSE Ret([w EXCEPT !.dirs = @ \cup up], "None")
  IN IF local_file_exist(w, path) THEN Ret(w, "None") ELSE make(Ancestors(path))

\* lines 98-105 of list_dir_files with the prefix test of line 101 left out
list_loop_body_no_exit(st, boss_dir, resp) ==
  IF Len(resp.Contents) = 0 THEN [st EXCEPT !.exc = "KeyError"]
  ELSE [st EXCEPT
          !.files = @ \o SelectSeq(resp.Contents, LAMBDA k : StartsWith(k, boss_dir)),
          !.is_truncated = resp.IsTruncated,
          !.continuation_token =
             IF resp.IsTruncated THEN resp.NextContinuationToken ELSE <<>>]

\* lines 97-105 of list_dir_files: one turn of the loop on a response
list_loop_body(st, boss_dir, resp) ==
  LET turn(more) ==
        [st EXCEPT
           !.files = @ \o SelectSeq(resp.Contents, LAMBDA k : StartsWith(k, boss_dir)),
           !.is_truncated = more,
           !.continuation_token = IF more THEN resp.NextContinuationToken ELSE <<>>]
  IN IF Len(resp.Contents) = 0 THEN [st EXCEPT !.exc = "KeyError"]
     ELSE turn(IF StartsWith(resp.Contents[Len(resp.Contents)], boss_dir)
                 THEN resp.IsTruncated ELSE FALSE)

\* lines 85-87: the state the loop starts in
list_start == [files |-> <<>>, is_truncated |-> TRUE, continuation_token |-> <<>>,
               exc |-> ""]

\* line 89: boss_dir.rstrip("/") + "/"
normalize(boss_dir) == RStrip(boss_dir, "/") \o <<"/">>

\* lines 90-106: while is_truncated: ...; return files
RECURSIVE list_loop(_, _, _, _)
list_loop(w, boss_dir, st, o) ==
  LET next(w2, nxt) ==
        IF nxt.exc # "" THEN [w |-> w2, ret |-> "raise", files |-> <<>>]
        ELSE list_loop(w2, boss_dir, nxt, o)
      turn(resp) ==
        IF resp.exc # "" THEN [w |-> resp.w, ret |-> "raise", files |-> <<>>]
        ELSE next(resp.w, list_loop_body(st, boss_dir, resp))
  IN IF ~st.is_truncated THEN [w |-> w, ret |-> "list", files |-> st.files]
     ELSE turn(s3_list_objects_v2(w, st.continuation_token, MaxKeys, boss_dir, o))

\* BossOperator.list_dir_files: the files under boss_dir, or the exception
list_dir_files(w, boss_dir, o) == list_loop(w, normalize(boss_dir), list_start, o)

\* the entry and the exit of a single-file method, around its body
Enter(name, w, key) == Logged(w, name, key, "enter")

Framed(key, res) == [w |-> Logged(res.w, "exit", key, res.ret), ret |-> res.ret]

\* upload_single_file that uploads only when there was nothing to delete
upload_single_file_body_else(w, file_path, upload_path, o) ==
  LET put(u) == IF u.exc # "" THEN Ret(u.w, "raise") ELSE Ret(u.w, "True")
      deleted(x) == IF x.exc # "" THEN Ret(x.w, "raise") ELSE Ret(x.w, "True")
      checked(e) ==
        IF e.ret = "raise" THEN e
        ELSE IF e.ret = "True" THEN deleted(s3_delete(e.w, upload_path, o))
        ELSE put(s3_upload_file(e.w, upload_path, file_path, o))
  IN IF ~local_file_exist(w, file_path) THEN Ret(w, "raise")
     ELSE checked(boss_file_exist(w, upload_path, o))

\* lines 143-149 of upload_single_file
upload_single_file_body(w, file_path, upload_path, o) ==
  LET put(u) == IF u.exc # "" THEN Ret(u.w, "raise") ELSE Ret(u.w, "True")
      upload(w2) == put(s3_upload_file(w2, upload_path, file_path, o))
      deleted(x) == IF x.exc # "" THEN Ret(x.w, "raise") ELSE upload(x.w)
      checked(e) ==
        IF e.ret = "raise" THEN e
        ELSE IF e.ret = "True" THEN deleted(s3_delete(e.w, upload_path, o))
        ELSE upload(e.w)
  IN IF ~local_file_exist(w, file_path) THEN Ret(w, "raise")
     ELSE checked(boss_file_exist(w, upload_path, o))

\* BossOperator.upload_single_file
upload_single_file(w, file_path, upload_path, o) ==
  Framed(upload_path,
         Catch(upload_single_file_body(Enter("upload_single_file", w, upload_path),
                                       file_path, upload_path, o)))

\* the loop of upload_files stopping at the first pair that fails
RECURSIVE upload_each_stop(_, _, _, _)
upload_each_stop(w, file_list, path_list, o) ==
  LET then(res) ==
        IF res.ret # "True" THEN res
        ELSE upload_each_stop(res.w, Tail(file_list), Tail(path_list), o)
  IN IF Len(file_list) = 0 \/ Len(path_list) = 0 THEN Ret(w, "None")
     ELSE then(upload_single_file(w, file_list[1], path_list[1], o))

\* lines 173-174 of upload_files: for file, path in zip(...): upload_single_file
RECURSIVE upload_each(_, _, _, _)
upload_each(w, file_list, path_list, o) ==
  LET then(res) ==
        IF res.ret = "raise" THEN res
        ELSE upload_each(res.w, Tail(file_list), Tail(path_list), o)
  IN IF Len(file_list) = 0 \/ Len(path_list) = 0 THEN Ret(w, "None")
     ELSE then(upload_single_file(w, file_list[1], path_list[1], o))

\* after the loop: return True (an exception on the way goes to the handler)
Completed(res) == IF res.ret = "raise" THEN res ELSE [w |-> res.w, ret |-> "True"]

\* upload_files without the length check of lines 171-172
upload_files_body_unchecked(w, file_list, path_list, o) ==
  Completed(upload_each(w, file_list, path_list, o))

\* lines 170-175 of upload_files
upload_files_body(w, file_list, path_list, o) ==
  IF Len(file_list) # Len(path_list) THEN Ret(w, "raise")
  ELSE Completed(upload_each(w, file_list, path_list, o))

\* BossOperator.upload_files
upload_files(w, file_list, path_list, o) ==
  Catch(upload_files_body(w, file_list, path_list, o))

\* BossOperator.__get_file_names_in_folder: the files under folder_path, relative
\* to it; os.walk yields them in no particular order
get_file_names_in_folder(w, folder_path) ==
  LET under(root) ==
        {From(f, Len(root) + 1) : f \in {g \in DOMAIN w.files : StartsWith(g, root)}}
  IN under(RStrip(folder_path, "/") \o <<"/">>)

\* lines 199-207 of upload_dir: "ignore", "keep", or "raise" (re.error); the
\* rules after the first that matches are not tried
is_ignore(file_name, ignore_re) ==
  LET verdict(hits) ==
        IF \E i \in 1..Len(hits) : hits[i] = "raise" /\ \A j \in 1..(i - 1) : hits[j] = "False"
          THEN "raise"
        ELSE IF \E i \in 1..Len(hits) : hits[i] = "True" THEN "ignore"
        ELSE "keep"
      try(rules) == verdict([i \in 1..Len(rules) |-> match_file_name(file_name, rules[i])])
  IN IF Len(ignore_re) = 0 THEN "keep" ELSE try(Split(ignore_re, ","))

\* lines 194-211 of upload_dir; file_names is the walk's order
upload_dir_body(w, file_names, file_dir, upload_dir_, ignore_re, o) ==
  LET upload(kept) ==
        Completed(upload_files(w,
                               [i \in 1..Len(kept) |-> file_dir \o <<"/">> \o kept[i]],
                               [i \in 1..Len(kept) |-> upload_dir_ \o <<"/">> \o kept[i]],
                               o))
      filter(verdict) ==
        IF \E n \in DOMAIN verdict : verdict[n] = "raise" THEN Ret(w, "raise")
        ELSE upload(SelectSeq(file_names, LAMBDA n : verdict[n] = "keep"))
  IN filter([n \in {file_names[i] : i \in 1..Len(file_names)} |-> is_ignore(n, ignore_re)])

\* BossOperator.upload_dir
upload_dir(w, file_names, file_dir, upload_dir_, ignore_re, o) ==
  Catch(upload_dir_body(w, file_names, file_dir, upload_dir_, ignore_re, o))

\* lines 228-237 of download_single_file
download_single_file_body(w, file, path, o) ==
  LET got(g) == IF g.exc # "" THEN Ret(g.w, "raise") ELSE Ret(g.w, "True")
      download(w2) == got(s3_download_file(w2, file, path, o))
      checked(e) ==
        IF e.ret = "raise" THEN e
        ELSE IF e.ret = "True" THEN download(e.w)
        ELSE Ret(e.w, "True")                                \* "boss file not exist"
  IN IF ~local_file_exist(w, path) THEN checked(boss_file_exist(w, file, o))
     ELSE IF path \in w.dirs THEN Ret(w, "raise")            \* os.remove of a directory
     ELSE download([w EXCEPT !.files = [p \in DOMAIN w.files \ {path} |-> w.files[p]]])

\* BossOperator.download_single_file
download_single_file(w, file, path, o) ==
  Framed(file, Catch(download_single_file_body(Enter("download_single_file", w, file),
                                               file, path, o)))

\* lines 256-260 and 284-292: the loop over the listed files (download_dir has
\* no endswith test: ignore.on is FALSE)
RECURSIVE download_each(_, _, _, _, _, _)
download_each(w, boss_files, boss_dir, local_dir, ignore, o) ==
  LET rest(w2) == download_each(w2, Tail(boss_files), boss_dir, local_dir, ignore, o)
      then(res) == IF res.ret = "raise" THEN res ELSE rest(res.w)
      made(m, local_file) ==
        IF m.ret = "raise" THEN m
        ELSE then(download_single_file(m.w, boss_files[1], local_file, o))
      one(local_file) == made(mkdir(w, DirName(local_file)), local_file)
  IN IF Len(boss_files) = 0 THEN Ret(w, "None")
     ELSE IF ignore.on /\ EndsWith(boss_files[1], ignore.suffix) THEN rest(w)
     ELSE one(Replace(boss_files[1], boss_dir, local_dir))

\* lines 254-261 of download_dir and 281-293 of download_dir_with_ignore
download_dir_body(w, boss_dir, local_dir, ignore, o) ==
  LET made(m, boss_files) ==
        IF m.ret = "raise" THEN m
        ELSE Completed(download_each(m.w, boss_files, boss_dir, local_dir, ignore, o))
      listed(ll) ==
        IF ll.ret = "raise" THEN Ret(ll.w, "raise")
        ELSE made(mkdir(ll.w, local_dir), ll.files)
  IN listed(list_dir_files(w, boss_dir, o))

\* BossOperator.download_dir
download_dir(w, boss_dir, local_dir, o) ==
  Catch(download_dir_body(w, boss_dir, local_dir, [on |-> FALSE, suffix |-> <<>>], o))

\* BossOperator.download_dir_with_ignore
download_dir_with_ignore(w, boss_dir, local_dir, ignore, o) ==
  Catch(download_dir_body(w, boss_dir, local_dir, [on |-> TRUE, suffix |-> ignore], o))

\* delete_single_file with the test of line 311 inverted
delete_single_file_body_inverted(w, file_path, o) ==
  LET checked(e) ==
        IF e.ret = "raise" THEN e
        ELSE IF e.ret = "True" THEN Ret(e.w, "True")
        ELSE Ret(e.w, "False")
      deleted(x) ==
        IF x.exc # "" THEN Ret(x.w, "raise")
        ELSE checked(boss_file_exist(x.w, file_path, o))
  IN deleted(s3_delete(w, file_path, o))

\* lines 310-316 of delete_single_file
delete_single_file_body(w, file_path, o) ==
  LET checked(e) ==
        IF e.ret = "raise" THEN e
        ELSE IF e.ret = "True" THEN Ret(e.w, "False")        \* "delete fail"
        ELSE Ret(e.w, "True")                                \* "delete success"
      deleted(x) ==
        IF x.exc # "" THEN Ret(x.w, "raise")
        ELSE checked(boss_file_exist(x.w, file_path, o))
  IN deleted(s3_delete(w, file_path, o))

\* BossOperator.delete_single_file
delete_single_file(w, file_path, o) ==
  Framed(file_path, Catch(delete_single_file_body(Enter("delete_single_file", w, file_path),
                                                  file_path, o)))

\* lines 332-333 of delete_files
RECURSIVE delete_each(_, _, _)
delete_each(w, file_list, o) ==
  LET then(res) ==
        IF res.ret = "raise" THEN res ELSE delete_each(res.w, Tail(file_list), o)
  IN IF Len(file_list) = 0 THEN Ret(w, "None")
     ELSE then(delete_single_file(w, file_list[1], o))

\* BossOperator.delete_files
delete_files(w, file_list, o) == Catch(Completed(delete_each(w, file_list, o)))

\* lines 350-353 of delete_dir
delete_dir_body(w, boss_dir, o) ==
  LET listed(ll) ==
        IF ll.ret = "raise" THEN Ret(ll.w, "raise")
        ELSE Completed(delete_files(ll.w, ll.files, o))
  IN listed(list_dir_files(w, boss_dir, o))

\* BossOperator.delete_dir
delete_dir(w, boss_dir, o) == Catch(delete_dir_body(w, boss_dir, o))

(***************************************************************************)
(* The names the model draws its inputs from.                              *)
(***************************************************************************)
a_txt == <<"a", ".", "t", "x", "t">>
a_log == <<"a", ".", "l", "o", "g">>
b_txt == <<"b", ".", "t", "x", "t">>
FileNames == {a_txt, a_log, b_txt}

local_d == <<"d">>                   \* the local directory that is uploaded
local_l == <<"l">>                   \* a local directory that does not exist yet
boss_r == <<"r">>                    \* the remote "directory"
key_s == <<"s">>                     \* a key outside it, sorting after it

In(dir, name) == dir \o <<"/">> \o name

LocalFiles == {In(local_d, n) : n \in FileNames}
InitKeys == {In(boss_r, a_txt), In(boss_r, b_txt), key_s}

\* comma-separated ignore rules: a\..* | b | txt | a\.l.*,b.* | .*\.log | *a | none
IgnoreRules ==
  { <<"a", "\\", ".", ".", "*">>,
    <<"b">>,
    <<"t", "x", "t">>,
    <<"a", "\\", ".", "l", ".", "*", ",", "b", ".", "*">>,
    <<".", "*", "\\", ".", "l", "o", "g">>,
    <<"*", "a">>,
    <<>> }

\* the lists of at most n elements of S
RECURSIVE SeqsUpTo(_, _)
SeqsUpTo(S, n) ==
  IF n = 0 THEN {<<>>}
  ELSE LET P == SeqsUpTo(S, n - 1)
       IN P \cup {Append(q, x) : q \in {t \in P : Len(t) = n - 1}, x \in S}

\* the orders os.walk may yield a set of names in
RECURSIVE Orders(_)
Orders(S) ==
  IF S = {} THEN {<<>>}
  ELSE UNION {{<<x>> \o q : q \in Orders(S \ {x})} : x \in S}

\* the lists the batch operations are called with
LocalLists == SeqsUpTo({In(local_d, a_txt), In(local_d, b_txt)}, MaxListLen)
RemoteLists == SeqsUpTo({In(boss_r, b_txt), key_s}, MaxListLen)
RemoteTargets == <<In(boss_r, b_txt), key_s, In(boss_r, a_txt), In(boss_r, a_log)>>
TargetLists == {SubSeq(RemoteTargets, 1, n) : n \in 0..MaxListLen}

\* the oracles: at most MaxFaults failing calls among an operation's first three
\* (the load, delete and put of one upload_single_file)
FaultPoints == (1..3) \X FaultModes

RECURSIVE OraclesUpTo(_)
OraclesUpTo(n) ==
  IF n = 0 THEN {{}}
  ELSE LET P == OraclesUpTo(n - 1)
       IN P \cup UNION {{F \cup {f} : f \in {g \in FaultPoints :
                                               \A h \in F : h[1] # g[1]}} : F \in P}

Oracles == OraclesUpTo(MaxFaults)

\* every fault of the oracle took place in the run: an oracle that names a call
\* the operation never made is the same run as the oracle without it
Effective(o, res) ==
  /\ \A f \in o : f[1] <= res.w.n
  /\ Cardinality({f \in o : f[2] = "stale"})
       = Cardinality({i \in 1..Len(res.w.log) : res.w.log[i].out = "stale"})

(***************************************************************************)
(* The state: the bucket, the local file system, the command that ran last *)
(* (cmd), how often it ran in a row (runs), what it returned (ret) and     *)
(* what the run before it returned (prevRet), the bucket and the files as  *)
(* the last run found them (bucket0, files0), what the last run did (log), *)
(* and the position of a listing that is under way (ls).                   *)
(*                                                                         *)
(* A process runs one command (oss_cli.main); the single-file commands are *)
(* also run a second time in a row on what the first run left.             *)
(***************************************************************************)
VARIABLES bucket, files, dirs, cmd, runs, ret, prevRet, bucket0, files0, log, ls

vars == <<bucket, files, dirs, cmd, runs, ret, prevRet, bucket0, files0, log, ls>>

World == [bucket |-> bucket, files |-> files, dirs |-> dirs, log |-> <<>>, n |-> 0]

Cmd(op, args) == [op |-> op, args |-> args]

ls_idle == [pc |-> "idle", arg |-> <<>>, boss_dir |-> <<>>, st |-> list_start,
            reqs |-> <<>>, ret |-> ""]

Init ==
  /\ bucket \in UNION {[K -> {2}] : K \in SUBSET InitKeys}
  /\ files \in UNION {[F -> {1}] : F \in SUBSET LocalFiles}
  /\ dirs = {local_d}
  /\ cmd = Cmd("", <<>>)
  /\ runs = 0
  /\ ret = ""
  /\ prevRet = ""
  /\ bucket0 = bucket
  /\ files0 = files
  /\ log = <<>>
  /\ ls = ls_idle

First == runs = 0 /\ ls.pc = "idle"

\* a single-file command runs first, or a second time right after itself
FirstOrAgain(c) == First \/ (runs = 1 /\ c = cmd)

Run(c, o, res) ==
  /\ Effective(o, res)
  /\ bucket' = res.w.bucket
  /\ files' = res.w.files
  /\ dirs' = res.w.dirs
  /\ log' = res.w.log
  /\ ret' = res.ret
  /\ prevRet' = ret
  /\ bucket0' = bucket
  /\ files0' = files
  /\ cmd' = c
  /\ runs' = runs + 1
  /\ UNCHANGED ls

UploadSingleFile ==
  /\ runs <= 1
  /\ \E file_path \in {In(local_d, b_txt), In(local_d, a_txt)},
        upload_path \in {In(boss_r, b_txt), key_s}, o \in Oracles :
       /\ FirstOrAgain(Cmd("upload_single_file", <<file_path, upload_path>>))
       /\ Run(Cmd("upload_single_file", <<file_path, upload_path>>), o,
              upload_single_file(World, file_path, upload_path, o))

UploadFiles ==
  /\ First
  /\ \E file_list \in LocalLists, path_list \in TargetLists, o \in Oracles :
       Run(Cmd("upload_files", <<file_list, path_list>>), o,
           upload_files(World, file_list, path_list, o))

UploadDir ==
  /\ First
  /\ \E ignore_re \in IgnoreRules, o \in Oracles,
        file_names \in Orders(get_file_names_in_folder(World, local_d)) :
       Run(Cmd("upload_dir", <<local_d, boss_r, ignore_re, file_names>>), o,
           upload_dir(World, file_names, local_d, boss_r, ignore_re, o))

DownloadSingleFile ==
  /\ runs <= 1
  /\ \E file \in {In(boss_r, b_txt), key_s},
        path \in {In(local_d, b_txt), In(local_l, b_txt), b_txt}, o \in Oracles :
       /\ FirstOrAgain(Cmd("download_single_file", <<file, path>>))
       /\ Run(Cmd("download_single_file", <<file, path>>), o,
              download_single_file(World, file, path, o))

DownloadDir ==
  /\ First
  /\ \E boss_dir \in {boss_r, key_s}, local_dir \in {local_l, <<>>}, o \in Oracles :
       Run(Cmd("download_dir", <<boss_dir, local_dir>>), o,
           download_dir(World, boss_dir, local_dir, o))

DownloadDirWithIgnore ==
  /\ First
  /\ \E ignore \in {<<"l", "o", "g">>, <<"t", "x", "t">>}, o \in Oracles :
       Run(Cmd("download_dir_with_ignore", <<boss_r, local_l, ignore>>), o,
           download_dir_with_ignore(World, boss_r, local_l, ignore, o))

DeleteSingleFile ==
  /\ runs <= 1
  /\ \E file_path \in {In(boss_r, b_txt), key_s}, o \in Oracles :
       /\ FirstOrAgain(Cmd("delete_single_file", <<file_path>>))
       /\ Run(Cmd("delete_single_file", <<file_path>>), o,
              delete_single_file(World, file_path, o))

DeleteFiles ==
  /\ First
  /\ \E file_list \in RemoteLists, o \in Oracles :
       Run(Cmd("delete_files", <<file_list>>), o, delete_files(World, file_list, o))

DeleteDir ==
  /\ First
  /\ \E boss_dir \in {boss_r, key_s}, o \in Oracles :
       Run(Cmd("delete_dir", <<boss_dir>>), o, delete_dir(World, boss_dir, o))

Next ==
  \/ UploadSingleFile
  \/ UploadFiles
  \/ UploadDir
  \/ DownloadSingleFile
  \/ DownloadDir
  \/ DownloadDirWithIgnore
  \/ DeleteSingleFile
  \/ DeleteFiles
  \/ DeleteDir

Spec == Init /\ [][Next]_vars

(***************************************************************************)
(* list_dir_files page by page: the store hands out each page with any     *)
(* number of keys from 1 to MaxKeys. ls.reqs lists the requests made: the  *)
(* token each carried, and the last key, the truncation flag and the next  *)
(* token of the page it got.                                               *)
(***************************************************************************)
key_a == <<"a">>
key_ab == <<"a", "b">>
ListKeys == { key_a, <<"a", "/">>, <<"a", "/", "x">>, <<"a", "/", "y">>,
              <<"a", "/", "z">>, key_ab, <<"b", "/", "x">> }
ListDirs == { key_a, <<"a", "/", "/">>, <<"b">>, key_ab }

InitList ==
  /\ bucket \in UNION {[K -> {2}] : K \in SUBSET ListKeys}
  /\ files = [f \in {} |-> 1]
  /\ dirs = {}
  /\ cmd = Cmd("", <<>>)
  /\ runs = 0
  /\ ret = ""
  /\ prevRet = ""
  /\ bucket0 = bucket
  /\ files0 = files
  /\ log = <<>>
  /\ ls = ls_idle

Request(token, resp) ==
  [token |-> token,
   last |-> IF Len(resp.Contents) = 0 THEN <<>> ELSE resp.Contents[Len(resp.Contents)],
   truncated |-> resp.IsTruncated,
   next |-> resp.NextContinuationToken]

\* lines 85-89: the call, up to the loop
ListStart ==
  /\ ls.pc = "idle"
  /\ \E boss_dir \in ListDirs :
       ls' = [ls_idle EXCEPT !.pc = "loop", !.arg = boss_dir, !.boss_dir = normalize(boss_dir)]
  /\ UNCHANGED <<bucket, files, dirs, cmd, runs, ret, prevRet, bucket0, files0, log>>

Turned(resp, nxt) ==
  [ls EXCEPT !.st = nxt,
             !.reqs = Append(@, Request(ls.st.continuation_token, resp)),
             !.pc = IF nxt.exc # "" THEN "done" ELSE @,
             !.ret = IF nxt.exc # "" THEN "raise" ELSE @]

\* lines 90-105: one turn of the loop
ListPage ==
  /\ ls.pc = "loop"
  /\ ls.st.is_truncated
  /\ \E n \in 1..MaxKeys :
       \E resp \in {s3_list_objects_v2(World, ls.st.continuation_token, n, ls.boss_dir, {})} :
         ls' = Turned(resp, list_loop_body(ls.st, ls.boss_dir, resp))
  /\ UNCHANGED <<bucket, files, dirs, cmd, runs, ret, prevRet, bucket0, files0, log>>

\* line 106: return files
ListReturn ==
  /\ ls.pc = "loop"
  /\ ~ls.st.is_truncated
  /\ ls' = [ls EXCEPT !.pc = "done", !.ret = "list"]
  /\ UNCHANGED <<bucket, files, dirs, cmd, runs, ret, prevRet, bucket0, files0, log>>

NextList ==
  \/ ListStart
  \/ ListPage
  \/ ListReturn

SpecList == InitList /\ [][NextList]_vars

(***************************************************************************)
(* The listing (SpecList).                                                 *)
(***************************************************************************)
\* the unpaginated reference: the keys under the normalized prefix, in key order
Reference(boss_dir) ==
  SortedKeys({k \in DOMAIN bucket : StartsWith(k, normalize(boss_dir))})

\* C1: for every prefix and key set, list_dir_files returns exactly the keys that
\* start with the normalized prefix, each once and in key order, however the
\* store splits the keys into pages, also when no key lies under or after the prefix
C1_ListEqualsReference ==
  ls.pc = "done" => (ls.ret = "list" /\ ls.st.files = Reference(ls.arg))

\* C10: the first request carries the empty token and each later one the token
\* the page before it returned; a further page is requested only after a page
\* that was truncated and whose last key starts with the prefix, so the listing
\* stops at the first page whose last key does not; the tokens grow strictly
\* and the requests are at most one more than the keys, so the loop ends
C10_Pagination ==
  /\ \A i \in 1..Len(ls.reqs) :
       /\ (i = 1) => ls.reqs[i].token = <<>>
       /\ (i > 1) => /\ ls.reqs[i].token = ls.reqs[i - 1].next
                     /\ ls.reqs[i - 1].truncated
                     /\ StartsWith(ls.reqs[i - 1].last, ls.boss_dir)
                     /\ StrLess(ls.reqs[i - 1].token, ls.reqs[i].token)
  /\ (Len(ls.reqs) > 0 /\ ls.ret # "raise")
       => (ls.st.is_truncated <=> (/\ ls.reqs[Len(ls.reqs)].truncated
                                   /\ StartsWith(ls.reqs[Len(ls.reqs)].last, ls.boss_dir)))
  /\ ls.pc = "done" => (ls.ret = "raise" \/ ~ls.st.is_truncated)
  /\ Len(ls.reqs) <= Cardinality(DOMAIN bucket) + 1

\* a listing of several pages that stopped at a page the store had truncated,
\* because the page's last key lies outside the prefix
C10_Witness ==
  /\ ls.pc = "done"
  /\ ls.ret = "list"
  /\ Len(ls.reqs) >= 2
  /\ ls.reqs[Len(ls.reqs)].truncated
  /\ ~StartsWith(ls.reqs[Len(ls.reqs)].last, ls.boss_dir)
  /\ Len(ls.st.files) >= 2

(***************************************************************************)
(* The transfer operations (Spec).                                         *)
(***************************************************************************)
Ran(op) == runs >= 1 /\ cmd.op = op

SingleFileOps == {"upload_single_file", "download_single_file", "delete_single_file"}
ListingOps == {"download_dir", "download_dir_with_ignore", "delete_dir"}

\* the store failed no call of the last run (a 404 is an answer, not a failure)
NoStoreFault ==
  \A i \in 1..Len(log) : log[i].out \notin {"ClientError", "Exception", "stale"}

\* the keys of the last run's calls to a single-file method, in order
Entered == SelectSeq(log, LAMBDA e : e.out = "enter")
Exited == SelectSeq(log, LAMBDA e : e.call = "exit")

\* C2: download_single_file of a key that is not in the bucket returns success
\* and leaves the local files as they were, whether or not the destination exists
C2_DownloadMissingIsNoOp ==
  (Ran("download_single_file") /\ cmd.args[1] \notin DOMAIN bucket0 /\ NoStoreFault)
    => (ret = "True" /\ files = files0)

\* an exception reached the handler of the single-file method that ran
RaisedInSingle ==
  \/ \E i \in 1..Len(log) :
       \/ log[i].out \in {"Exception", "OSError"}
       \/ log[i].out = "ClientError" /\ log[i].call # "load"
       \/ log[i].out = "404" /\ log[i].call = "get"
  \/ cmd.op = "upload_single_file" /\ cmd.args[1] \notin DOMAIN files0

\* the listing of the directory method that ran raised: the store failed the
\* list call, or no key sorts after the prefix (KeyError)
RaisedInListing ==
  \/ \E i \in 1..Len(log) : log[i].call = "list" /\ log[i].out \in {"ClientError", "Exception"}
  \/ \A k \in DOMAIN bucket0 : ~StrLess(normalize(cmd.args[1]), k)

C4_LengthMismatch ==
  (Ran("upload_files") /\ Len(cmd.args[1]) # Len(cmd.args[2]))
    => (ret = "False" /\ log = <<>> /\ bucket = bucket0)

\* two files for one remote path, the file there and the key absent: refused
C4_Witness ==
  /\ Ran("upload_files")
  /\ Len(cmd.args[1]) = 2
  /\ Len(cmd.args[2]) = 1
  /\ cmd.args[1][1] \in DOMAIN files
  /\ cmd.args[2][1] \notin DOMAIN bucket
  /\ ret = "False"

\* C5: upload_single_file twice in a row with the same arguments leaves the
\* bucket as the first call left it, the object holding the local content; and a
\* call returns success whenever the file exists and the store fails no call
C5_UploadIdempotent ==
  /\ (Ran("upload_single_file") /\ runs = 2 /\ prevRet = "True" /\ ret = "True")
       => /\ bucket = bucket0
          /\ cmd.args[2] \in DOMAIN bucket
          /\ bucket[cmd.args[2]] = files[cmd.args[1]]
  /\ (Ran("upload_single_file") /\ cmd.args[1] \in DOMAIN files0 /\ NoStoreFault)
       => /\ ret = "True"
          /\ cmd.args[2] \in DOMAIN bucket
          /\ bucket[cmd.args[2]] = files[cmd.args[1]]
          /\ \A k \in (DOMAIN bucket0 \cup DOMAIN bucket) \ {cmd.args[2]} :
               k \in DOMAIN bucket0 /\ k \in DOMAIN bucket /\ bucket[k] = bucket0[k]

\* the second of two successful uploads: it found the object of the first,
\* deleted it and put it again
C5_Witness ==
  /\ Ran("upload_single_file")
  /\ runs = 2
  /\ prevRet = "True"
  /\ ret = "True"
  /\ NoStoreFault
  /\ \E i \in 1..Len(log) : log[i].call = "delete"
  /\ \E k \in DOMAIN bucket : k # cmd.args[2]

\* C6: delete_single_file returns success only when it has verified that the
\* object is absent: on success the key is not in the bucket and the existence
\* check answered 404
C6_DeleteVerified ==
  (Ran("delete_single_file") /\ ret = "True")
    => /\ cmd.args[1] \notin DOMAIN bucket
       /\ \E i \in 1..Len(log) : log[i].call = "load" /\ log[i].out = "404"

\* C7 as stated: delete_single_file on a key that was already deleted fails
C7_DeleteAgainFails ==
  (Ran("delete_single_file") /\ runs = 2 /\ prevRet = "True"
     /\ cmd.args[1] \notin DOMAIN bucket0 /\ NoStoreFault)
    => ret = "False"

\* an exception reached the handler of delete_single_file
RaisedInDelete ==
  \E i \in 1..Len(log) :
    \/ log[i].out = "Exception"
    \/ log[i].out = "ClientError" /\ log[i].call = "delete"

\* C7 amended: delete_single_file on a key that is absent does not raise, and
\* returns success; it returns failure only when the delete call or the
\* existence check raises an error into its handler
C7_DeleteAgainSucceeds ==
  (Ran("delete_single_file") /\ cmd.args[1] \notin DOMAIN bucket0)
    => /\ ret \in {"True", "False"}
       /\ ret = "False" <=> RaisedInDelete

\* the second delete of a key the first delete removed: success again
C7_Witness ==
  /\ Ran("delete_single_file")
  /\ runs = 2
  /\ prevRet = "True"
  /\ cmd.args[1] \notin DOMAIN bucket0
  /\ NoStoreFault
  /\ ret = "True"

\* what re.match(rule, name) finds for the rules and names of the model: the
\* names each rule list excludes (a\..* | b | txt | a\.l.*,b.* | .*\.log | none)
Excluded(ignore_re) ==
  CASE ignore_re = <<"a", "\\", ".", ".", "*">> -> {a_txt, a_log}
    [] ignore_re = <<"b">> -> {b_txt}
    [] ignore_re = <<"t", "x", "t">> -> {}
    [] ignore_re = <<"a", "\\", ".", "l", ".", "*", ",", "b", ".", "*">> -> {a_log, b_txt}
    [] ignore_re = <<".", "*", "\\", ".", "l", "o", "g">> -> {a_log}
    [] ignore_re = <<>> -> {}

\* the names upload_dir is to upload, in the order of the walk
Kept == SelectSeq(cmd.args[4], LAMBDA n : n \notin Excluded(cmd.args[3]))

\* C8: upload_dir uploads exactly the files under the local directory whose
\* relative name no rule matches at its start, each to remoteDir/name, in the
\* order of the walk; no excluded file is uploaded and no other key is created
C8_IgnoreFilter ==
  (Ran("upload_dir") /\ cmd.args[3] # <<"*", "a">>)
    => /\ ret = "True"
       /\ {cmd.args[4][i] : i \in 1..Len(cmd.args[4])}
            = {n \in FileNames : In(cmd.args[1], n) \in DOMAIN files0}
       /\ [i \in 1..Len(Entered) |-> Entered[i].key]
            = [i \in 1..Len(Kept) |-> In(cmd.args[2], Kept[i])]
       /\ \A i \in 1..Len(log) :
            log[i].call = "put" => \E j \in 1..Len(Kept) : log[i].key = In(cmd.args[2], Kept[j])
       /\ \A k \in DOMAIN bucket :
            k \in DOMAIN bucket0 \/ \E j \in 1..Len(Kept) : k = In(cmd.args[2], Kept[j])
       /\ NoStoreFault =>
            /\ \A j \in 1..Len(Kept) :
                 /\ In(cmd.args[2], Kept[j]) \in DOMAIN bucket
                 /\ bucket[In(cmd.args[2], Kept[j])] = files[In(cmd.args[1], Kept[j])]
            /\ \A n \in Excluded(cmd.args[3]) :
                 /\ In(cmd.args[2], n) \in DOMAIN bucket <=> In(cmd.args[2], n) \in DOMAIN bucket0
                 /\ In(cmd.args[2], n) \in DOMAIN bucket
                      => bucket[In(cmd.args[2], n)] = bucket0[In(cmd.args[2], n)]

\* a.txt, a.log and b.txt under the rule a\..*: only b.txt is uploaded
C8_Witness ==
  /\ Ran("upload_dir")
  /\ cmd.args[3] = <<"a", "\\", ".", ".", "*">>
  /\ DOMAIN files0 = LocalFiles
  /\ NoStoreFault
  /\ ret = "True"
  /\ DOMAIN bucket0 = {}
  /\ DOMAIN bucket = {In(boss_r, b_txt)}

=============================================================================
